---- MODULE Spec2Model ----
(***************************************************************************)
(* A model of threadparser.py: ThreadParser (tokenize the page with the    *)
(* pattern catalogue, sort by position, split at BREAKER tokens, fold each *)
(* group into a Reply, patch the root reply) and Reply.consume.            *)
(*                                                                         *)
(* The page is a list of markup lines drawn from a catalogue of line       *)
(* texts.  The thirteen regular expressions of Token.tokenizers are        *)
(* evaluated on the text of each line (none of them matches across a line  *)
(* break in these pages: "." does not match a newline, and every           *)
(* dcmessage paragraph of the catalogue is closed on its own line).        *)
(***************************************************************************)
EXTENDS Integers, Sequences, FiniteSets, TLC

(***************************************************************************)
(* Strings                                                                 *)
(***************************************************************************)
Min(S) == CHOOSE x \in S : \A y \in S : x <= y

Max(S) == CHOOSE x \in S : \A y \in S : x >= y

\* the least element of S, d when S is empty
MinOr(S, d) == IF S = {} THEN d ELSE Min(S)

\* s[i] as a one-character string (1-based), "" outside the string
Char(s, i) == IF i >= 1 /\ i <= Len(s) THEN SubSeq(s, i, i) ELSE ""

\* the literal lit occurs in s at index i
LitAt(s, lit, i) ==
    /\ i >= 1
    /\ i + Len(lit) - 1 <= Len(s)
    /\ SubSeq(s, i, i + Len(lit) - 1) = lit

\* index of the first occurrence of lit in s at or after from, 0 if none
Find(s, lit, from) == MinOr({i \in from..Len(s) : LitAt(s, lit, i)}, 0)

Digits == {"0", "1", "2", "3", "4", "5", "6", "7", "8", "9"}

Spaces == {" ", "\t", "\n", "\r"}

\* the index just after the longest run of characters of set C starting at i
RunEnd(s, C, i) == MinOr({k \in i..Len(s) : Char(s, k) \notin C}, Len(s) + 1)

(***************************************************************************)
(* Token.tokenizers: one matcher per pattern.  A matcher tells whether the *)
(* pattern matches s starting exactly at index i, and then gives group(1)  *)
(* and the index just after the match.                                     *)
(***************************************************************************)
MESG_ID == "MESG_ID"
MESG_TITLE == "MESG_TITLE"
MESG_PARENT == "MESG_PARENT"
MESG_TEXT == "MESG_TEXT"
MESG_DATE == "MESG_DATE"
MESG_NUM == "MESG_NUM"
AUTHOR_NAME == "AUTHOR_NAME"
AUTHOR_AVATAR == "AUTHOR_AVATAR"
AUTHOR_ID == "AUTHOR_ID"
AUTHOR_CHARTER == "AUTHOR_CHARTER"
AUTHOR_NEWBIE == "AUTHOR_NEWBIE"
AUTHOR_POSTS == "AUTHOR_POSTS"
BREAKER == "BREAKER"

\* the keys of the tokenizers dict, in the order they are written
Registration ==
    << MESG_ID, MESG_TITLE, MESG_NUM, MESG_TEXT, MESG_DATE, MESG_PARENT,
       AUTHOR_AVATAR, AUTHOR_CHARTER, AUTHOR_NEWBIE, AUTHOR_POSTS, AUTHOR_ID,
       AUTHOR_NAME, BREAKER >>

Kinds == {Registration[i] : i \in 1..Len(Registration)}

NoMatch == [ok |-> FALSE, data |-> "", end |-> 0]

Matched(s, from, to, end) == [ok |-> TRUE, data |-> SubSeq(s, from, to), end |-> end]

\* prefix (group: everything up to the first occurrence of suffix) suffix
LazyUntil(s, i, prefix, suffix) ==
    LET j == i + Len(prefix)
        e == Find(s, suffix, j)
    IN IF LitAt(s, prefix, i) /\ e > 0
       THEN Matched(s, j, e - 1, e + Len(suffix))
       ELSE NoMatch

\* a name="(\d+)"
MatchId(s, i) ==
    LET j == i + 8
        e == RunEnd(s, Digits, j)
    IN IF LitAt(s, "a name=\"", i) /\ e > j /\ Char(s, e) = "\""
       THEN Matched(s, j, e - 1, e + 1)
       ELSE NoMatch

\* <strong>.*?"(.*?)"</strong>
MatchTitle(s, i) ==
    LET j == i + 8
        q == Find(s, "\"", j)
        e == IF q > 0 THEN Find(s, "\"</strong>", q + 1) ELSE 0
    IN IF LitAt(s, "<strong>", i) /\ e > 0
       THEN Matched(s, q + 1, e - 1, e + 10)
       ELSE NoMatch

\* <strong>(\d+).*?".*?"</strong>
MatchNum(s, i) ==
    LET j == i + 8
        d == RunEnd(s, Digits, j)
        q == Find(s, "\"", d)
        e == IF q > 0 THEN Find(s, "\"</strong>", q + 1) ELSE 0
    IN IF LitAt(s, "<strong>", i) /\ d > j /\ e > 0
       THEN Matched(s, j, d - 1, e + 10)
       ELSE NoMatch

\* <p class="dcmessage">(.*?)</p>   (re.DOTALL)
MatchText(s, i) == LazyUntil(s, i, "<p class=\"dcmessage\">", "</p>")

\* class="dcdate">(.*?)<
MatchDate(s, i) == LazyUntil(s, i, "class=\"dcdate\">", "<")

\* Reply # (\d+)
MatchParent(s, i) ==
    LET j == i + 8
        e == RunEnd(s, Digits, j)
    IN IF LitAt(s, "Reply # ", i) /\ e > j
       THEN Matched(s, j, e - 1, e)
       ELSE NoMatch

\* src="(.*?)" height="60"
MatchAvatar(s, i) == LazyUntil(s, i, "src=\"", "\" height=\"60\"")

\* class="dcauthorinfo">(Charter member)<
MatchCharter(s, i) ==
    IF LitAt(s, "class=\"dcauthorinfo\">Charter member<", i)
    THEN Matched(s, i + 21, i + 34, i + 36)
    ELSE NoMatch

\* class="dcauthorinfo">Member since (.*?)<
MatchNewbie(s, i) == LazyUntil(s, i, "class=\"dcauthorinfo\">Member since ", "<")

\* class="dcauthorinfo">.*?(\d+) post
MatchPosts(s, i) ==
    LET j == i + 21
        K == {k \in j..Len(s) :
                 /\ Char(s, k) \in Digits
                 /\ LitAt(s, " post", RunEnd(s, Digits, k))}
    IN IF LitAt(s, "class=\"dcauthorinfo\">", i) /\ K # {}
       THEN Matched(s, Min(K), RunEnd(s, Digits, Min(K)) - 1,
                    RunEnd(s, Digits, Min(K)) + 5)
       ELSE NoMatch

\* user_profiles&u_id=(.*?)"\s*?class
MatchAuthorId(s, i) ==
    LET j == i + 19
        ClassAt(q) == Min({k \in (q + 1)..RunEnd(s, Spaces, q + 1) :
                               LitAt(s, "class", k)} \cup {Len(s) + 1})
        Q == {q \in j..Len(s) : Char(s, q) = "\"" /\ ClassAt(q) <= Len(s)}
    IN IF LitAt(s, "user_profiles&u_id=", i) /\ Q # {}
       THEN Matched(s, j, Min(Q) - 1, ClassAt(Min(Q)) + 5)
       ELSE NoMatch

\* class="dcauthorlink">(.*?)<
MatchName(s, i) == LazyUntil(s, i, "class=\"dcauthorlink\">", "<")

\* (Printer-friendly copy)
MatchBreaker(s, i) ==
    IF LitAt(s, "Printer-friendly copy", i)
    THEN Matched(s, i, i + 20, i + 21)
    ELSE NoMatch

tokenizers(kind, s, i) ==
    CASE kind = MESG_ID -> MatchId(s, i)
      [] kind = MESG_TITLE -> MatchTitle(s, i)
      [] kind = MESG_NUM -> MatchNum(s, i)
      [] kind = MESG_TEXT -> MatchText(s, i)
      [] kind = MESG_DATE -> MatchDate(s, i)
      [] kind = MESG_PARENT -> MatchParent(s, i)
      [] kind = AUTHOR_AVATAR -> MatchAvatar(s, i)
      [] kind = AUTHOR_CHARTER -> MatchCharter(s, i)
      [] kind = AUTHOR_NEWBIE -> MatchNewbie(s, i)
      [] kind = AUTHOR_POSTS -> MatchPosts(s, i)
      [] kind = AUTHOR_ID -> MatchAuthorId(s, i)
      [] kind = AUTHOR_NAME -> MatchName(s, i)
      [] kind = BREAKER -> MatchBreaker(s, i)

\* Token(type, data, position)
Token(type, data, position) == [type |-> type, data |-> data, position |-> position]

\* re.finditer(tokenizer, s) from index pos on: the non-overlapping matches,
\* leftmost first, as tokens whose position is match.start() (0-based)
Leftmost(kind, s, pos) == MinOr({i \in pos..Len(s) : tokenizers(kind, s, i).ok}, 0)

\* the matches from the leftmost one on, which starts at index i (0: none)
RECURSIVE TokensFrom(_, _, _)
TokensFrom(kind, s, i) ==
    IF i = 0 THEN << >>
    ELSE << Token(kind, tokenizers(kind, s, i).data, i - 1) >>
         \o TokensFrom(kind, s, Leftmost(kind, s, tokenizers(kind, s, i).end))

finditer(kind, s, pos) == TokensFrom(kind, s, Leftmost(kind, s, pos))

(***************************************************************************)
(* The pages.  A page is a head line followed by body lines, joined by     *)
(* newlines; html is held as the indices of its lines in the catalogues.   *)
(***************************************************************************)
MaxLines == 3

HeadLines ==
    << "<a href=\"okp.php?az=show_topic&forum=5&topic_id=0077\"><strong>\"Thread\"</strong></a>",
       "<a href=\"okp.php?az=show_topic&topic_id=0077\"><strong>\"Thread\"</strong></a>" >>

BodyLines ==
    << "<a name=\"5\"></a>",
       "<a name=\"07\"></a><strong>42. \"Hello\"</strong>",
       "Printer-friendly copy",
       "<a href=\"?az=user_profiles&u_id=9\" class=\"dcauthorlink\">bob</a><p class=\"dcmessage\">Hi</p>",
       "<p class=\"dcmessage\">, \"yo\"</p> Reply # 3",
       "<img src=\"HTTP://x.co/A.JPG\" height=\"60\"> <img src=\"/mod.gif\" height=\"60\"> <span class=\"dcdate\">Mon Jan-05-09 11:30 PM</span>",
       "<td class=\"dcauthorinfo\">Charter member<br>12 posts</td>",
       "<td class=\"dcauthorinfo\">Member since Aug 1st 2004<br>3 posts</td>",
       "<td class=\"dcauthorinfo\">Member since August 1st 2004</td>",
       "<a name=\"6\"></a>Reply # 1 <strong>2. \"Re\"</strong> Printer-friendly copy" >>

\* the catalogue of all lines, and the place in it of line n of the page
\* (line 1 is the head)
Lines == HeadLines \o BodyLines

LineIndex(h, n) == IF n = 1 THEN h.head ELSE Len(HeadLines) + h.body[n - 1]

LineText(h, n) == Lines[LineIndex(h, n)]

NumLines(h) == 1 + Len(h.body)

Pages ==
    { [head |-> hd, body |-> b] :
        hd \in 1..Len(HeadLines),
        b \in UNION { [1..n -> 1..Len(BodyLines)] : n \in 0..MaxLines } }

KindIndex(kind) == CHOOSE k \in 1..Len(Registration) : Registration[k] = kind

\* the matches in line s of each of the first k patterns
RECURSIVE LineTokens(_, _)
LineTokens(s, k) ==
    IF k = 0 THEN << >>
    ELSE Append(LineTokens(s, k - 1), finditer(Registration[k], s, 1))

\* the matches of each pattern in each of the first n lines of the catalogue
RECURSIVE CatalogueMatches(_)
CatalogueMatches(n) ==
    IF n = 0 THEN << >>
    ELSE Append(CatalogueMatches(n - 1), LineTokens(Lines[n], Len(Registration)))

Matches == CatalogueMatches(Len(Lines))

LineMatches(h, n, kind) == Matches[LineIndex(h, n)][KindIndex(kind)]

Shift(toks, by) ==
    [i \in 1..Len(toks) |-> Token(toks[i].type, toks[i].data, toks[i].position + by)]

\* re.finditer(tokenizer, self.html): the matches of one pattern in the page,
\* from line n on, which starts at (0-based) offset start
RECURSIVE PageMatches(_, _, _, _)
PageMatches(h, kind, n, start) ==
    IF n > NumLines(h) THEN << >>
    ELSE Shift(LineMatches(h, n, kind), start)
         \o PageMatches(h, kind, n + 1, start + Len(LineText(h, n)) + 1)

(***************************************************************************)
(* Python values.  None, False and a value are kept apart; a failed        *)
(* conversion is a result that is not ok and names the exception raised.   *)
(***************************************************************************)
PyNone == << "None" >>

PyFalse == << "False" >>

Py(v) == << "value", v >>

PyStr(s) == << "str", s, "" >>

Val(p) == p[2]

Ok(v) == [ok |-> TRUE, val |-> v, exc |-> ""]

Raise(e) == [ok |-> FALSE, val |-> 0, exc |-> e]

DigitValue(c) ==
    CASE c = "0" -> 0 [] c = "1" -> 1 [] c = "2" -> 2 [] c = "3" -> 3
      [] c = "4" -> 4 [] c = "5" -> 5 [] c = "6" -> 6 [] c = "7" -> 7
      [] c = "8" -> 8 [] c = "9" -> 9

RECURSIVE ToNat(_)
ToNat(s) ==
    IF s = "" THEN 0
    ELSE 10 * ToNat(SubSeq(s, 1, Len(s) - 1)) + DigitValue(Char(s, Len(s)))

\* str.strip()
Strip(s) ==
    SubSeq(s, RunEnd(s, Spaces, 1),
              Max({0} \cup {k \in 1..Len(s) : Char(s, k) \notin Spaces}))

\* int(s) of a string: it is stripped, may carry a sign, and must then be all
\* digits, else ValueError
IntOfDigits(d, negative) ==
    IF d = "" \/ RunEnd(d, Digits, 1) <= Len(d) THEN Raise("ValueError")
    ELSE Ok(IF negative THEN 0 - ToNat(d) ELSE ToNat(d))

IntOfStripped(t) ==
    IntOfDigits(IF Char(t, 1) \in {"+", "-"} THEN SubSeq(t, 2, Len(t)) ELSE t,
                Char(t, 1) = "-")

int(s) == IntOfStripped(Strip(s))

\* int(x) of a field that holds None or an int: None raises TypeError
IntOfField(x) == IF x = PyNone THEN Raise("TypeError") ELSE Ok(Val(x))

Upper == "ABCDEFGHIJKLMNOPQRSTUVWXYZ"

LowerLetters == "abcdefghijklmnopqrstuvwxyz"

LowerChar(c) ==
    LET k == Find(Upper, c, 1) IN IF k > 0 THEN Char(LowerLetters, k) ELSE c

\* str.lower()
RECURSIVE lower(_)
lower(s) == IF s = "" THEN "" ELSE LowerChar(Head(s)) \o lower(Tail(s))

startswith(s, prefix) == LitAt(s, prefix, 1)

endswith(s, suffixes) == \E x \in suffixes : LitAt(s, x, Len(s) - Len(x) + 1)

\* re.sub(r'st|nd|rd|th', '', s)
RECURSIVE StripOrdinals(_)
StripOrdinals(s) ==
    IF s = "" THEN ""
    ELSE IF Len(s) >= 2 /\ SubSeq(s, 1, 2) \in {"st", "nd", "rd", "th"}
         THEN StripOrdinals(SubSeq(s, 3, Len(s)))
         ELSE Head(s) \o StripOrdinals(Tail(s))

(***************************************************************************)
(* datetime: a value is << proleptic ordinal of the day, second of day >>. *)
(***************************************************************************)
MonthNames ==
    << "jan", "feb", "mar", "apr", "may", "jun",
       "jul", "aug", "sep", "oct", "nov", "dec" >>

IsLeap(y) == y % 4 = 0 /\ (y % 100 # 0 \/ y % 400 = 0)

DaysInMonth(y, m) ==
    IF m = 2 THEN (IF IsLeap(y) THEN 29 ELSE 28)
    ELSE IF m \in {4, 6, 9, 11} THEN 30 ELSE 31

RECURSIVE DaysBeforeMonth(_, _)
DaysBeforeMonth(y, m) ==
    IF m = 1 THEN 0 ELSE DaysBeforeMonth(y, m - 1) + DaysInMonth(y, m - 1)

Ordinal(y, m, d) ==
    (y - 1) * 365 + ((y - 1) \div 4) - ((y - 1) \div 100) + ((y - 1) \div 400)
    + DaysBeforeMonth(y, m) + d

\* a field of one to width digits at index i: its value and the index after it
NumField(s, i, width) ==
    LET e == Min({RunEnd(s, Digits, i), i + width})
    IN [ok |-> e > i, val |-> ToNat(SubSeq(s, i, e - 1)), next |-> e]

\* %b at index i: the month number, 0 when it is no month abbreviation
MonthNumber(abbr) == MinOr({m \in 1..12 : MonthNames[m] = abbr}, 0)

MonthField(s, i) ==
    IF i + 2 <= Len(s) THEN MonthNumber(lower(SubSeq(s, i, i + 2))) ELSE 0

\* the state of a scan: the index reached and the fields read so far
ScanStart ==
    [ok |-> TRUE, next |-> 1, mon |-> 1, day |-> 1, year |-> 1900,
     hour |-> 0, min |-> 0, pm |-> FALSE]

\* one directive d of a format applied to s where the scan p stands: %b, %d,
\* %y, %Y, %I, %M, %p, white space (one or more), or a literal character
Directive(s, d, p) ==
    CASE d = "b" ->
           LET m == MonthField(s, p.next)
           IN [p EXCEPT !.ok = m > 0, !.mon = m, !.next = @ + 3]
      [] d = "d" ->
           LET f == NumField(s, p.next, 2)
           IN [p EXCEPT !.ok = f.ok /\ f.val \in 1..31, !.day = f.val, !.next = f.next]
      [] d = "y" ->
           LET f == NumField(s, p.next, 2)
           IN [p EXCEPT !.ok = f.ok /\ f.next = p.next + 2, !.next = f.next,
                        !.year = IF f.val >= 69 THEN 1900 + f.val ELSE 2000 + f.val]
      [] d = "Y" ->
           LET f == NumField(s, p.next, 4)
           IN [p EXCEPT !.ok = f.ok /\ f.next = p.next + 4 /\ f.val >= 1,
                        !.year = f.val, !.next = f.next]
      [] d = "I" ->
           LET f == NumField(s, p.next, 2)
           IN [p EXCEPT !.ok = f.ok /\ f.val \in 1..12, !.hour = f.val % 12,
                        !.next = f.next]
      [] d = "M" ->
           LET f == NumField(s, p.next, 2)
           IN [p EXCEPT !.ok = f.ok /\ f.val \in 0..59, !.min = f.val, !.next = f.next]
      [] d = "p" ->
           LET ap == lower(SubSeq(s, p.next, Min({p.next + 1, Len(s)})))
           IN [p EXCEPT !.ok = ap \in {"am", "pm"}, !.pm = (ap = "pm"), !.next = @ + 2]
      [] d = " " ->
           LET e == RunEnd(s, Spaces, p.next)
           IN [p EXCEPT !.ok = e > p.next, !.next = e]
      [] OTHER -> [p EXCEPT !.ok = (Char(s, p.next) = d), !.next = @ + 1]

\* the directives of fmt from the k-th on, until one does not match
RECURSIVE Scan(_, _, _, _)
Scan(s, fmt, k, p) ==
    IF ~p.ok \/ k > Len(fmt) THEN p
    ELSE Scan(s, fmt, k + 1, Directive(s, fmt[k], p))

\* the datetime of a finished scan: all of s must be used up and the day exist
Scanned(s, p) ==
    IF p.ok /\ p.next = Len(s) + 1 /\ p.day <= DaysInMonth(p.year, p.mon)
    THEN Ok(<< Ordinal(p.year, p.mon, p.day),
               (p.hour + (IF p.pm THEN 12 ELSE 0)) * 3600 + p.min * 60 >>)
    ELSE Raise("ValueError")

strptime(s, fmt) == Scanned(s, Scan(s, fmt, 1, ScanStart))

\* datetime.datetime.strptime(s, "%b-%d-%y %I:%M %p")
StrptimeMessage(s) ==
    strptime(s, << "b", "-", "d", "-", "y", " ", "I", ":", "M", " ", "p" >>)

\* datetime.datetime.strptime(s, '%b %d %Y')
StrptimeJoin(s) == strptime(s, << "b", " ", "d", " ", "Y" >>)

\* get_default_time_offset(): datetime.timedelta(0, 3757)
TimeOffsetSeconds == 3757

SecondsPerDay == 86400

\* datetime + timedelta
AddSeconds(dt, secs) ==
    << dt[1] + ((dt[2] + secs) \div SecondsPerDay), (dt[2] + secs) % SecondsPerDay >>

BASE_URL == "http://board.okayplayer.com/okp.php"

\* REPLY_URL % (forum, topic, message)
REPLY_URL(forum, topic, message) ==
    BASE_URL \o "?az=show_topic&forum=" \o ToString(forum)
             \o "&topic_id=" \o ToString(topic) \o "#" \o ToString(message)

(***************************************************************************)
(* ThreadParser.__init__: the three searches over the page.                *)
(***************************************************************************)
\* <strong>\s*"(.*?)"\s*</strong> matched at index i of s
MatchThreadTitle(s, i) ==
    LET q == RunEnd(s, Spaces, i + 8)
        Q == {k \in (q + 1)..Len(s) :
                 /\ Char(s, k) = "\""
                 /\ LitAt(s, "</strong>", RunEnd(s, Spaces, k + 1))}
    IN IF LitAt(s, "<strong>", i) /\ Char(s, q) = "\"" /\ Q # {}
       THEN Matched(s, q + 1, Min(Q) - 1, RunEnd(s, Spaces, Min(Q) + 1) + 9)
       ELSE NoMatch

\* name=(\d+) matched at index i of s, for forum=(\d+) and topic_id=(\d+)
MatchNumberAfter(s, i, name) ==
    LET j == i + Len(name)
        e == RunEnd(s, Digits, j)
    IN IF LitAt(s, name, i) /\ e > j THEN Matched(s, j, e - 1, e) ELSE NoMatch

SearchAt(which, s, i) ==
    CASE which = "title" -> MatchThreadTitle(s, i)
      [] which = "forum" -> MatchNumberAfter(s, i, "forum=")
      [] which = "topic" -> MatchNumberAfter(s, i, "topic_id=")

\* re.search(pattern, s): group(1) of the leftmost match, None without a match
LineSearch(which, s) ==
    LET I == {i \in 1..Len(s) : SearchAt(which, s, i).ok}
    IN IF I = {} THEN PyNone ELSE Py(SearchAt(which, s, Min(I)).data)

LineSearches(s) ==
    [ title |-> LineSearch("title", s),
      forum |-> LineSearch("forum", s),
      topic |-> LineSearch("topic", s) ]

\* the three searches in each of the first n lines of the catalogue
RECURSIVE CatalogueSearches(_)
CatalogueSearches(n) ==
    IF n = 0 THEN << >>
    ELSE Append(CatalogueSearches(n - 1), LineSearches(Lines[n]))

Searches == CatalogueSearches(Len(Lines))

\* re.search(pattern, self.html) from line n of the page on
RECURSIVE SearchFrom(_, _, _)
SearchFrom(which, h, n) ==
    IF n > NumLines(h) THEN PyNone
    ELSE IF Searches[LineIndex(h, n)][which] # PyNone
         THEN Searches[LineIndex(h, n)][which]
         ELSE SearchFrom(which, h, n + 1)

search(which, h) == SearchFrom(which, h, 1)

(***************************************************************************)
(* ThreadParser.parse                                                      *)
(***************************************************************************)
Reverse(seq) == [i \in 1..Len(seq) |-> seq[Len(seq) + 1 - i]]

Rotate(seq, r) == [i \in 1..Len(seq) |-> seq[((i - 1 + r) % Len(seq)) + 1]]

\* the orders in which Token.tokenizers.iteritems() may hand out the patterns:
\* between them, each two patterns that can match at one offset (title and
\* number, charter and post count, join date and post count) come both ways
Orders ==
    {Rotate(Registration, r) : r \in {0, 2, 8, 9}}
    \cup {Rotate(Reverse(Registration), r) : r \in {0, 5}}

\* the two nested loops of parse: for each pattern in dict order, its matches
RECURSIVE Collect(_, _, _)
Collect(h, order, k) ==
    IF k > Len(order) THEN << >>
    ELSE PageMatches(h, order[k], 1, 0) \o Collect(h, order, k + 1)

\* the sort left out: the element stays where the loops of parse put it
InsertAtEnd(sorted, t) == Append(sorted, t)

\* list.sort(key = position) is stable: an element goes after every element
\* of the sorted prefix whose position is not greater than its own
InsertByPosition(sorted, t) ==
    LET k == Cardinality({i \in 1..Len(sorted) : sorted[i].position <= t.position})
    IN SubSeq(sorted, 1, k) \o << t >> \o SubSeq(sorted, k + 1, Len(sorted))

RECURSIVE SortByPosition(_)
SortByPosition(seq) ==
    IF seq = << >> THEN << >>
    ELSE InsertByPosition(SortByPosition(SubSeq(seq, 1, Len(seq) - 1)), seq[Len(seq)])

parse(h, order) == SortByPosition(Collect(h, order, 1))

(***************************************************************************)
(* ThreadParser.iter_posts                                                 *)
(***************************************************************************)
\* a group is handed out at every BREAKER, also when it is empty
RECURSIVE IterFromEveryBreaker(_, _, _)
IterFromEveryBreaker(toks, i, group) ==
    IF i > Len(toks) THEN << >>
    ELSE IF toks[i].type # BREAKER
         THEN IterFromEveryBreaker(toks, i + 1, Append(group, toks[i]))
         ELSE << group >> \o IterFromEveryBreaker(toks, i + 1, << >>)

RECURSIVE IterFrom(_, _, _)
IterFrom(toks, i, group) ==
    IF i > Len(toks) THEN << >>
    ELSE IF toks[i].type # BREAKER THEN IterFrom(toks, i + 1, Append(group, toks[i]))
    ELSE IF group # << >> THEN << group >> \o IterFrom(toks, i + 1, << >>)
    ELSE IterFrom(toks, i + 1, group)

iter_posts(toks) == IterFrom(toks, 1, << >>)

(***************************************************************************)
(* Reply                                                                   *)
(***************************************************************************)
\* Reply.__init__ (message, the fragment list, is the attribute that consume
\* creates empty before its loop)
Reply(forum, topic) ==
    [ forum_id |-> forum, topic_id |-> topic,
      message_id |-> PyNone, message_title |-> PyNone, message_parent |-> PyNone,
      message_text |-> PyNone, message_date |-> PyNone, message_num |-> PyNone,
      author_name |-> PyNone, author_avatar |-> PyNone, author_id |-> PyNone,
      author_is_charter |-> FALSE, author_join_date |-> PyFalse,
      author_num_posts |-> 0, url |-> "", message |-> << >> ]

Folded(r) == [ok |-> TRUE, reply |-> r, exc |-> ""]

Failed(r, e) == [ok |-> FALSE, reply |-> r, exc |-> e]

\* the first token of a kind wins: a field that is set is not assigned again
AssignIntFirstWins(r, field, data) ==
    LET v == int(data)
    IN IF ~v.ok THEN Failed(r, v.exc)
       ELSE IF r[field] # PyNone THEN Folded(r)
       ELSE Folded([r EXCEPT ![field] = Py(v.val)])

AssignInt(r, field, data) ==
    LET v == int(data)
    IN IF v.ok THEN Folded([r EXCEPT ![field] = Py(v.val)]) ELSE Failed(r, v.exc)

\* the charter branch without the line that clears the join date
ConsumeCharterKeepingDate(r) == Folded([r EXCEPT !.author_is_charter = TRUE])

ConsumeCharter(r) ==
    Folded([r EXCEPT !.author_is_charter = TRUE, !.author_join_date = PyFalse])

ConsumeNewbie(r, data) ==
    LET stripped == StripOrdinals(data)
        d == StrptimeJoin(stripped)
    IN IF d.ok
       THEN Folded([r EXCEPT !.author_join_date = Py(d.val),
                             !.author_is_charter = FALSE])
       ELSE Failed([r EXCEPT !.author_join_date = PyStr(stripped)], d.exc)

\* the post-count branch also resetting the join date
ConsumePostsClearingDate(r, data) ==
    LET v == int(data)
    IN IF v.ok
       THEN Folded([r EXCEPT !.author_num_posts = v.val, !.author_join_date = PyFalse])
       ELSE Failed(r, v.exc)

ConsumePosts(r, data) ==
    LET v == int(data)
    IN IF v.ok THEN Folded([r EXCEPT !.author_num_posts = v.val]) ELSE Failed(r, v.exc)

ConsumeDate(r, data) ==
    LET d == StrptimeMessage(SubSeq(data, 5, Len(data)))
    IN IF d.ok
       THEN Folded([r EXCEPT !.message_date = Py(AddSeconds(d.val, TimeOffsetSeconds))])
       ELSE Failed(r, d.exc)

ConsumeAvatar(r, data) ==
    LET img == lower(data)
    IN IF startswith(img, "http") /\ endswith(img, {"jpg", "gif", "png"})
       THEN Folded([r EXCEPT !.author_avatar = Py(img)])
       ELSE Folded(r)

\* the fragment put in front of the list
ConsumeTextPrepend(r, data) == Folded([r EXCEPT !.message = << data >> \o @])

ConsumeText(r, data) == Folded([r EXCEPT !.message = Append(@, data)])

\* one pass of the loop of Reply.consume
ConsumeToken(r, token) ==
    CASE token.type = MESG_ID -> AssignInt(r, "message_id", token.data)
      [] token.type = MESG_TITLE -> Folded([r EXCEPT !.message_title = Py(token.data)])
      [] token.type = MESG_PARENT -> AssignInt(r, "message_parent", token.data)
      [] token.type = MESG_TEXT -> ConsumeText(r, token.data)
      [] token.type = MESG_DATE -> ConsumeDate(r, token.data)
      [] token.type = MESG_NUM -> AssignInt(r, "message_num", token.data)
      [] token.type = AUTHOR_NAME -> Folded([r EXCEPT !.author_name = Py(token.data)])
      [] token.type = AUTHOR_AVATAR -> ConsumeAvatar(r, token.data)
      [] token.type = AUTHOR_ID -> AssignInt(r, "author_id", token.data)
      [] token.type = AUTHOR_CHARTER -> ConsumeCharter(r)
      [] token.type = AUTHOR_NEWBIE -> ConsumeNewbie(r, token.data)
      [] token.type = AUTHOR_POSTS -> ConsumePosts(r, token.data)
      [] OTHER -> Folded(r)

\* ''.join(self.message)
RECURSIVE Join(_)
Join(frags) == IF frags = << >> THEN "" ELSE Head(frags) \o Join(Tail(frags))

\* the end of Reply.consume: the message text, then the url
ConsumeEnd(r) ==
    LET r1 == [r EXCEPT !.message_text = Py(Join(r.message))]
        f == int(r.forum_id)
        t == int(r.topic_id)
        m == IntOfField(r.message_id)
    IN IF ~f.ok THEN Failed(r1, f.exc)
       ELSE IF ~t.ok THEN Failed(r1, t.exc)
       ELSE IF ~m.ok THEN Failed(r1, m.exc)
       ELSE Folded([r1 EXCEPT !.url = REPLY_URL(f.val, t.val, m.val)])

\* only the sequence number of the root reply is patched
RootPatchNumOnly(rs) == [rs EXCEPT ![1] = [@ EXCEPT !.message_num = Py(0)]]

\* the patch applied to every reply
RootPatchAll(rs) ==
    [i \in 1..Len(rs) |-> [rs[i] EXCEPT !.message_num = Py(0), !.message_parent = Py(-1)]]

\* the two assignments that end get_replies
RootPatch(rs) ==
    [rs EXCEPT ![1] = [@ EXCEPT !.message_num = Py(0), !.message_parent = Py(-1)]]

\* Reply.consume as a whole: the loop from token i of the group on, then the end
RECURSIVE ConsumeFrom(_, _, _)
ConsumeFrom(r, group, i) ==
    IF i > Len(group) THEN ConsumeEnd(r)
    ELSE LET c == ConsumeToken(r, group[i])
         IN IF c.ok THEN ConsumeFrom(c.reply, group, i + 1) ELSE c

consume(r, group) == ConsumeFrom(r, group, 1)

\* what the caller of ThreadParser(html) gets: the replies, or the exception
Returned(rs) == [ok |-> TRUE, replies |-> rs, exc |-> ""]

Raised(e) == [ok |-> FALSE, replies |-> << >>, exc |-> e]

\* get_replies as a whole, from group i on, with the replies rs so far
RECURSIVE GetRepliesFrom(_, _, _, _, _)
GetRepliesFrom(groups, i, rs, forum, topic) ==
    IF i > Len(groups)
    THEN IF rs = << >> THEN Raised("IndexError") ELSE Returned(RootPatch(rs))
    ELSE LET c == consume(Reply(forum, topic), groups[i])
         IN IF c.ok THEN GetRepliesFrom(groups, i + 1, Append(rs, c.reply), forum, topic)
            ELSE Raised(c.exc)

\* ThreadParser(html) as a whole, the patterns being iterated in the given order
ThreadParser(h, order) ==
    IF \E w \in {"title", "forum", "topic"} : search(w, h) = PyNone
    THEN Raised("AttributeError")
    ELSE GetRepliesFrom(iter_posts(parse(h, order)), 1, << >>,
                        Val(search("forum", h)), Val(search("topic", h)))

(***************************************************************************)
(* The run of ThreadParser(html)                                           *)
(***************************************************************************)
VARIABLES
    html,       \* the page
    pc,         \* where the constructor is
    exc,        \* the exception that left the constructor, "" if none
    title,      \* self.title
    forum_id,   \* self.forum_id
    topic_id,   \* self.topic_id
    tokens,     \* self.tokens
    replies,    \* self.replies
    posts,      \* the number of groups iter_posts has handed to get_replies
    post,       \* the group being folded
    reply,      \* the Reply being folded, None when there is none
    at          \* the index in post of the next token of consume's loop

vars == << html, pc, exc, title, forum_id, topic_id, tokens, replies,
           posts, post, reply, at >>

Init ==
    /\ html \in Pages
    /\ pc = "init"
    /\ exc = ""
    /\ title = PyNone
    /\ forum_id = PyNone
    /\ topic_id = PyNone
    /\ tokens = << >>
    /\ replies = << >>
    /\ posts = 0
    /\ post = << >>
    /\ reply = PyNone
    /\ at = 0

\* __init__ up to the call of parse: a search without a match returns None,
\* and None.group(1) raises AttributeError
Construct ==
    /\ pc = "init"
    /\ \E t \in {search("title", html)}, f \in {search("forum", html)},
          p \in {search("topic", html)} :
          IF t = PyNone
          THEN /\ pc' = "failed" /\ exc' = "AttributeError"
               /\ UNCHANGED << title, forum_id, topic_id >>
          ELSE IF f = PyNone
          THEN /\ pc' = "failed" /\ exc' = "AttributeError"
               /\ title' = t
               /\ UNCHANGED << forum_id, topic_id >>
          ELSE IF p = PyNone
          THEN /\ pc' = "failed" /\ exc' = "AttributeError"
               /\ title' = t /\ forum_id' = f
               /\ UNCHANGED topic_id
          ELSE /\ pc' = "parse" /\ exc' = ""
               /\ title' = t /\ forum_id' = f /\ topic_id' = p
    /\ UNCHANGED << html, tokens, replies, posts, post, reply, at >>

Parse ==
    /\ pc = "parse"
    /\ \E order \in Orders : tokens' = parse(html, order)
    /\ pc' = "get_replies"
    /\ UNCHANGED << html, exc, title, forum_id, topic_id, replies, posts, post, reply, at >>

\* the loop of get_replies takes the next group from iter_posts and starts
\* folding it into a new Reply
NextPost ==
    /\ pc = "get_replies"
    /\ posts < Len(iter_posts(tokens))
    /\ posts' = posts + 1
    /\ post' = iter_posts(tokens)[posts + 1]
    /\ reply' = Reply(Val(forum_id), Val(topic_id))
    /\ at' = 1
    /\ pc' = "consume"
    /\ UNCHANGED << html, exc, title, forum_id, topic_id, tokens, replies >>

\* one token of the group is folded; an exception leaves get_replies
Consume ==
    /\ pc = "consume"
    /\ at <= Len(post)
    /\ \E c \in {ConsumeToken(reply, post[at])} :
          /\ reply' = c.reply
          /\ IF c.ok
             THEN /\ at' = at + 1
                  /\ UNCHANGED << pc, exc >>
             ELSE /\ pc' = "failed" /\ exc' = c.exc
                  /\ UNCHANGED at
    /\ UNCHANGED << html, title, forum_id, topic_id, tokens, replies, posts, post >>

\* a group whose Reply cannot be completed is skipped and the loop goes on
AppendSkippingFailure ==
    /\ pc = "consume"
    /\ at > Len(post)
    /\ \E c \in {ConsumeEnd(reply)} :
          /\ replies' = IF c.ok THEN Append(replies, c.reply) ELSE replies
          /\ reply' = PyNone
          /\ pc' = "get_replies"
          /\ UNCHANGED exc
    /\ UNCHANGED << html, title, forum_id, topic_id, tokens, posts, post, at >>

\* the loop of consume is over: text and url are built and the Reply appended
AppendReply ==
    /\ pc = "consume"
    /\ at > Len(post)
    /\ \E c \in {ConsumeEnd(reply)} :
          IF c.ok
          THEN /\ replies' = Append(replies, c.reply)
               /\ reply' = PyNone
               /\ pc' = "get_replies"
               /\ UNCHANGED exc
          ELSE /\ reply' = c.reply
               /\ pc' = "failed" /\ exc' = c.exc
               /\ UNCHANGED replies
    /\ UNCHANGED << html, title, forum_id, topic_id, tokens, posts, post, at >>

\* iter_posts is exhausted: the root reply is patched; replies[0] of an empty
\* list raises IndexError
Patch ==
    /\ pc = "get_replies"
    /\ posts = Len(iter_posts(tokens))
    /\ IF replies = << >>
       THEN /\ pc' = "failed" /\ exc' = "IndexError"
            /\ UNCHANGED replies
       ELSE /\ replies' = RootPatch(replies)
            /\ pc' = "done"
            /\ UNCHANGED exc
    /\ UNCHANGED << html, title, forum_id, topic_id, tokens, posts, post, reply, at >>

Next == Construct \/ Parse \/ NextPost \/ Consume \/ AppendReply \/ Patch

Spec == Init /\ [][Next]_vars
(***************************************************************************)
(* Properties                                                              *)
(***************************************************************************)
\* self.tokens has been assigned and sorted
Parsed ==
    \/ pc \in {"get_replies", "consume", "done"}
    \/ pc = "failed" /\ exc # "AttributeError"

Terminated == pc \in {"done", "failed"}

Groups == iter_posts(tokens)

BreakerAt(i) == tokens[i].type = BREAKER

\* the BREAKER tokens that are not the first token and follow a token that
\* is no BREAKER
Closers == {i \in 1..Len(tokens) : BreakerAt(i) /\ i > 1 /\ ~BreakerAt(i - 1)}

Kth(S, k) == CHOOSE e \in S : Cardinality({x \in S : x <= e}) = k

\* the tokens between the BREAKER at index e and the BREAKER before it (or
\* the start)
RunBefore(e) ==
    SubSeq(tokens, 1 + Max({0} \cup {i \in 1..(e - 1) : BreakerAt(i)}), e - 1)

HasKind(toks, kind) == \E i \in 1..Len(toks) : toks[i].type = kind

LastOf(toks, kind) == Max({0} \cup {i \in 1..Len(toks) : toks[i].type = kind})

FreshReply == Reply(Val(forum_id), Val(topic_id))

\* the tokens of the group being folded that consume's loop has passed
FoldedSoFar == SubSeq(post, 1, at - 1)

\* C1: when the parse completes, the first reply has message_num 0 and
\* message_parent -1 whatever its group held, and the patch changes
\* message_num and message_parent of no other reply.
C1_RootPatch ==
    [][pc' = "done" =>
          /\ replies' # << >>
          /\ replies'[1].message_num = Py(0)
          /\ replies'[1].message_parent = Py(-1)
          /\ Len(replies') = Len(replies)
          /\ \A i \in 2..Len(replies) :
                /\ replies'[i].message_num = replies[i].message_num
                /\ replies'[i].message_parent = replies[i].message_parent]_vars

\* a completed parse of two replies whose first group held a sequence number
\* other than 0 and a parent reference
C1_Witness ==
    /\ pc = "done"
    /\ Len(replies) >= 2
    /\ HasKind(Groups[1], MESG_PARENT)
    /\ HasKind(Groups[1], MESG_NUM)
    /\ int(Groups[1][LastOf(Groups[1], MESG_NUM)].data).val # 0
    /\ replies[2].message_num \notin {PyNone, Py(0)}
    /\ replies[2].message_parent \notin {PyNone, Py(-1)}

\* C2: iter_posts hands out one group per BREAKER that follows a token that
\* is no BREAKER; the groups are the maximal runs of non-BREAKER tokens closed
\* by a BREAKER, in order, none empty; the group being folded is the run of
\* its number, and the i-th reply is the fold of the i-th run.
C2_Grouping ==
    Parsed =>
        LET G == Groups
            C == Closers
        IN /\ Len(G) = Cardinality(C)
           /\ \A k \in 1..Len(G) :
                 /\ G[k] = RunBefore(Kth(C, k))
                 /\ G[k] # << >>
                 /\ ~HasKind(G[k], BREAKER)
           /\ pc = "consume" => post = RunBefore(Kth(C, posts))
           /\ pc = "done" => Len(replies) = Cardinality(C)
           /\ \A i \in 1..Len(replies) :
                 LET c == consume(FreshReply, RunBefore(Kth(C, i)))
                 IN /\ c.ok
                    /\ replies[i] = IF i = 1 /\ pc = "done"
                                    THEN RootPatch(<< c.reply >>)[1]
                                    ELSE c.reply

\* a completed parse of a page with two BREAKER tokens in a row and two groups
C2_Witness ==
    /\ pc = "done"
    /\ Len(replies) = 2
    /\ \E i \in 1..(Len(tokens) - 1) : BreakerAt(i) /\ BreakerAt(i + 1)

\* C3: tokens after the last BREAKER are no error: when the three searches of
\* the constructor succeed and every group closed by a BREAKER folds, the
\* parse completes and returns one reply per closed group (possibly none).
C3_TrailingGroupIsNoError ==
    ( /\ Terminated
      /\ exc # "AttributeError"
      /\ \A k \in 1..Len(Groups) : consume(FreshReply, Groups[k]).ok )
    => pc = "done" /\ Len(replies) = Len(Groups)

\* C4: after parse, self.tokens holds exactly the matches of every pattern,
\* is non-decreasing in position, and the groups handed to consume are its
\* tokens in that order.
C4_TokenOrder ==
    Parsed =>
        /\ \A i \in 1..(Len(tokens) - 1) : tokens[i].position <= tokens[i + 1].position
        /\ \A kind \in Kinds :
              LET IsKind(t) == t.type = kind
              IN SelectSeq(tokens, IsKind) = PageMatches(html, kind, 1, 0)
        /\ \A i \in 1..Len(tokens) : tokens[i].type \in Kinds
        /\ pc = "consume" =>
              /\ at \in 1..(Len(post) + 1)
              /\ \E a \in 1..Len(tokens) :
                    post = SubSeq(tokens, a, a + Len(post) - 1)

\* a folding step over tokens among which two share a position and which the
\* patterns, taken in the order they are written, did not yield in order
C4_Witness ==
    /\ pc = "consume"
    /\ at > 1
    /\ \E i \in 1..(Len(tokens) - 1) : tokens[i].position = tokens[i + 1].position
    /\ tokens # Collect(html, Registration, 1)

\* the charter flag and join date that the AUTHOR_CHARTER and AUTHOR_NEWBIE
\* tokens of toks call for: those of the last such token
CharterAndDate(toks) ==
    LET I == {i \in 1..Len(toks) : toks[i].type \in {AUTHOR_CHARTER, AUTHOR_NEWBIE}}
    IN IF I = {} THEN << FALSE, PyFalse >>
       ELSE IF toks[Max(I)].type = AUTHOR_CHARTER THEN << TRUE, PyFalse >>
       ELSE << FALSE, Py(StrptimeJoin(StripOrdinals(toks[Max(I)].data)).val) >>

CharterAgrees(r, toks) ==
    /\ ~(r.author_is_charter /\ r.author_join_date # PyFalse)
    /\ << r.author_is_charter, r.author_join_date >> = CharterAndDate(toks)

\* C5: after every token folded, and in every finished Reply, the charter
\* flag is never True while the join date is set; both are decided by the
\* last AUTHOR_CHARTER or AUTHOR_NEWBIE token, and without one the flag is
\* False and the join date unset.
C5_CharterExclusive ==
    /\ pc = "consume" => CharterAgrees(reply, FoldedSoFar)
    /\ LET G == Groups
       IN \A i \in 1..Len(replies) : CharterAgrees(replies[i], G[i])

\* a finished charter Reply whose group held a join date before the charter
\* token
C5_Witness ==
    /\ pc = "done"
    /\ \E i \in 1..Len(replies) :
          /\ replies[i].author_is_charter
          /\ LastOf(Groups[i], AUTHOR_NEWBIE) > 0
          /\ LastOf(Groups[i], AUTHOR_NEWBIE) < LastOf(Groups[i], AUTHOR_CHARTER)

C7_FrozenOnceAppended ==
    [][\A i \in 1..Len(replies) : Len(replies') >= i /\ replies'[i] = replies[i]]_vars

\* C7 amended: a Reply in self.replies is never changed by a later step,
\* except that the step that ends get_replies sets message_num to 0 and
\* message_parent to -1 in the first reply, and nothing else.
C7_FrozenButRootPatch ==
    [][\A i \in 1..Len(replies) :
          /\ Len(replies') >= i
          /\ replies'[i] =
                IF i = 1 /\ pc = "get_replies" /\ pc' = "done"
                THEN [replies[1] EXCEPT !.message_num = Py(0), !.message_parent = Py(-1)]
                ELSE replies[i]]_vars

\* a completed parse of two replies whose first group held a sequence number
\* other than 0, so that the patch changed the first reply
C7_Witness ==
    /\ pc = "done"
    /\ Len(replies) >= 2
    /\ replies[1] # consume(FreshReply, Groups[1]).reply
    /\ replies[2].message_num # PyNone

ExpectInt(toks, kind) ==
    IF HasKind(toks, kind) THEN Py(int(toks[LastOf(toks, kind)].data).val) ELSE PyNone

ExpectStr(toks, kind) ==
    IF HasKind(toks, kind) THEN Py(toks[LastOf(toks, kind)].data) ELSE PyNone

LastWins(r, toks, patched) ==
    /\ r.message_id = ExpectInt(toks, MESG_ID)
    /\ patched \/ r.message_parent = ExpectInt(toks, MESG_PARENT)
    /\ patched \/ r.message_num = ExpectInt(toks, MESG_NUM)
    /\ r.author_id = ExpectInt(toks, AUTHOR_ID)
    /\ r.author_num_posts =
          IF HasKind(toks, AUTHOR_POSTS)
          THEN int(toks[LastOf(toks, AUTHOR_POSTS)].data).val ELSE 0
    /\ r.message_title = ExpectStr(toks, MESG_TITLE)
    /\ r.author_name = ExpectStr(toks, AUTHOR_NAME)

\* C8: while and after a group is folded, message_id, message_parent,
\* message_num, author_id, author_num_posts, message_title and author_name
\* each hold the value of the last token of their kind folded, and their
\* default (None, 0 for author_num_posts) when no token of their kind was
\* (message_num and message_parent of the first reply apart, once patched).
C8_LastWins ==
    /\ pc = "consume" => LastWins(reply, FoldedSoFar, FALSE)
    /\ LET G == Groups
       IN \A i \in 1..Len(replies) : LastWins(replies[i], G[i], i = 1 /\ pc = "done")

\* a finished Reply whose group held two MESG_ID tokens of different values
\* and two titles, and no AUTHOR_NAME token
C8_Witness ==
    /\ pc = "done"
    /\ \E i \in 1..Len(replies) :
          /\ \E a, b \in 1..Len(Groups[i]) :
                /\ a < b
                /\ Groups[i][a].type = MESG_ID /\ Groups[i][b].type = MESG_ID
                /\ int(Groups[i][a].data).val # int(Groups[i][b].data).val
          /\ \E a, b \in 1..Len(Groups[i]) :
                /\ a < b
                /\ Groups[i][a].type = MESG_TITLE /\ Groups[i][b].type = MESG_TITLE
                /\ Groups[i][a].data # Groups[i][b].data
          /\ replies[i].author_name = PyNone

\* the payloads of the MESG_TEXT tokens of toks, in order
Fragments(toks) ==
    LET IsText(t) == t.type = MESG_TEXT
        texts == SelectSeq(toks, IsText)
    IN [i \in 1..Len(texts) |-> texts[i].data]

RECURSIVE Concatenated(_)
Concatenated(toks) ==
    IF toks = << >> THEN ""
    ELSE (IF Head(toks).type = MESG_TEXT THEN Head(toks).data ELSE "")
         \o Concatenated(Tail(toks))

\* C9: the fragment list of the Reply being folded holds the payloads of the
\* MESG_TEXT tokens folded so far, in order, and message_text of a finished
\* Reply is the concatenation, without separator and in source order, of the
\* payloads of the MESG_TEXT tokens of its own group ("" when it has none).
C9_MessageText ==
    /\ pc = "consume" =>
          /\ reply.message = Fragments(FoldedSoFar)
          /\ reply.message_text = PyNone
    /\ LET G == Groups
       IN \A i \in 1..Len(replies) : replies[i].message_text = Py(Concatenated(G[i]))

\* a completed parse with a Reply made of two different fragments, the later
\* one of the page coming last in the text
C9_Witness ==
    /\ pc = "done"
    /\ \E i \in 1..Len(replies) :
          /\ Len(Fragments(Groups[i])) = 2
          /\ Fragments(Groups[i])[1] # Fragments(Groups[i])[2]
          /\ replies[i].message_text
                = Py(Fragments(Groups[i])[1] \o Fragments(Groups[i])[2])

\* the kinds whose patterns can match at one offset
TiedKinds ==
    { {MESG_TITLE, MESG_NUM}, {AUTHOR_CHARTER, AUTHOR_POSTS}, {AUTHOR_NEWBIE, AUTHOR_POSTS} }

\* what the caller of the constructor gets in this run
Outcome == IF pc = "done" THEN Returned(replies) ELSE Raised(exc)

\* C10: whatever the order in which the patterns were iterated, the run ends
\* as the run that iterates them in the order they are written; tokens that
\* share a position are of kinds that write different fields, and a BREAKER
\* shares its position with no token.
C10_OrderIndependent ==
    /\ Terminated => Outcome = ThreadParser(html, Registration)
    /\ Parsed =>
          \A i \in 1..Len(tokens) : \A j \in (i + 1)..Len(tokens) :
              tokens[i].position = tokens[j].position
                  => {tokens[i].type, tokens[j].type} \in TiedKinds

\* a completed parse whose tokens came in another order than the patterns,
\* iterated as they are written, give, in a group that yields a Reply
C10_Witness ==
    /\ pc = "done"
    /\ tokens # parse(html, Registration)
    /\ iter_posts(tokens) # iter_posts(parse(html, Registration))
    /\ \E i \in 1..Len(replies) : replies[i].author_join_date # PyFalse
====
